---- MODULE Spec2Model ----
(***************************************************************************)
(* Measurement block of the tsi1 index (tsdb/engine/tsi1/measurement.go):  *)
(* the writer (Add, Delete, WriteTo), the byte layout it produces, the     *)
(* trailer parser (MeasurementBlock.UnmarshalBinary) and the Robin Hood    *)
(* probe (MeasurementBlock.Elem).  Blocks are sequences of bytes (0..255); *)
(* Go's 0-based slices are translated with Slice and From.                 *)
(***************************************************************************)
EXTENDS Integers, Sequences, FiniteSets, TLC

(* ------------------------------ bounds -------------------------------- *)

\* Add/Delete calls made on a writer before it is written.
MaxOps == 3
\* Slots the hash map may have beyond the number of names put into it.
MaxSlack == 1
\* Names of the writers InitLoad starts from.
MaxLoadNames == 1

\* Measurement names: byte strings of different lengths ("a", "b", "cd").
Names == {<<97>>, <<98>>, <<99, 100>>}
\* The (offset, seriesIDs) pairs Add is called with.
AddArgs == {[offset |-> 7, seriesIDs |-> <<5>>],
            [offset |-> 258, seriesIDs |-> <<300, 4, 4>>]}
\* Values hashKey takes on the names.
HashVals == {1, 2}

(* --------------------------- program constants ------------------------ *)

MeasurementBlockVersion == 1
MeasurementTombstoneFlag == 1
MeasurementBlockVersionSize == 2
MeasurementBlockSize == 8
MeasurementHashOffsetSize == 8
MeasurementTrailerSize ==
    MeasurementBlockVersionSize + MeasurementBlockSize + MeasurementHashOffsetSize
MeasurementNSize == 4
MeasurementOffsetSize == 8
SeriesIDSize == 4

VARIABLES
    mms,     \* MeasurementBlockWriter.mms: name -> measurement
    hist,    \* per name, the Add/Delete calls made on it, oldest first
    hashOf,  \* hashKey on the names
    slack,   \* slots rhh.NewHashMap allocates beyond Options.Capacity
    m,       \* the hash map WriteTo built last (<<>> before the first WriteTo)
    buf,     \* the bytes WriteTo wrote last (<<>> before the first WriteTo)
    trunc,   \* bytes cut from the end of buf before UnmarshalBinary
    blk,     \* MeasurementBlock: data and hashData (slices of the bytes loaded), version
    uerr,    \* what UnmarshalBinary returned ("none" before the call)
    epc,     \* position of the Elem call: idle, loop, done, panic
    ename,   \* Elem's argument
    pos,     \* Elem's pos
    d,       \* Elem's d
    reads,   \* hash-index slots Elem has read in this call
    ret      \* Elem's result: e, ok

vars == <<mms, hist, hashOf, slack, m, buf, trunc, blk, uerr, epc, ename, pos, d, reads, ret>>

(* ------------------------------ bytes --------------------------------- *)

\* Go's s[lo:hi] and s[lo:].
Slice(s, lo, hi) == SubSeq(s, lo + 1, hi)
From(s, lo) == SubSeq(s, lo + 1, Len(s))

RECURSIVE Pow(_, _)
Pow(b, e) == IF e = 0 THEN 1 ELSE b * Pow(b, e - 1)

\* Byte k (0 the least significant) of v.  The integers written by the model
\* are below 2^32, so the bytes from the fifth on are 0.
ByteOf(v, k) ==
    IF k > 3 THEN 0 ELSE (v \div <<1, 256, 65536, 16777216>>[k + 1]) % 256

\* binary.BigEndian.PutUintNN: v in w bytes, most significant first.
BE(v, w) == [i \in 1..w |-> ByteOf(v, w - i)]

\* Every length and offset of a block of the model is far below Huge; the
\* value of a field that is not is kept as Huge, so that it stays comparable.
Huge == Pow(2, 20)
Min(a, b) == IF a < b THEN a ELSE b

\* binary.BigEndian.UintNN on the first w bytes of s, most significant first.
Uint(s, w) ==
    LET low(k) == IF w > k THEN s[w - k] ELSE 0
    IN  IF \E i \in 1..(w - 3) : s[i] # 0 THEN Huge
        ELSE Min(low(0) + 256 * low(1) + 65536 * low(2), Huge)

\* binary.PutUvarint: 7 bits a byte, least significant group first.
RECURSIVE PutUvarint(_)
PutUvarint(v) ==
    IF v < 128 THEN <<v>> ELSE <<(v % 128) + 128>> \o PutUvarint(v \div 128)

\* binary.Uvarint: <<value, bytes read>>; <<0, 0>> when the buffer ends early.
RECURSIVE UvarintAt(_, _, _, _)
UvarintAt(s, i, x, shift) ==
    IF i > Len(s) THEN <<0, 0>>
    ELSE IF s[i] < 128 THEN <<x + s[i] * Pow(2, shift), i>>
    ELSE UvarintAt(s, i + 1, x + (s[i] - 128) * Pow(2, shift), shift + 7)
Uvarint(s) == UvarintAt(s, 1, 0, 0)

(* --------------------------- hashing (tsi1) --------------------------- *)

hashKey(key) == hashOf[key]

dist(hash, i, capacity) == (i + capacity - (hash % capacity)) % capacity

(* ------------------------- rhh.HashMap -------------------------------- *)

\* An empty slot: Elem(i) returns a nil value.
NilElem == [key |-> <<>>, value |-> <<>>, used |-> FALSE]

NewHashMap(capacity) == [i \in 1..capacity |-> NilElem]

Cap(hm) == Len(hm)

\* HashMap.Elem(i), 0-based.
HashMapElem(hm, i) == hm[i + 1]

\* Robin Hood insertion of key/val, probing from p at distance dd.
RECURSIVE insert(_, _, _, _, _)
insert(hm, key, val, p, dd) ==
    LET cur == hm[p + 1]
        nxt == (p + 1) % Cap(hm)
    IN  IF ~cur.used \/ cur.key = key
        THEN [hm EXCEPT ![p + 1] = [key |-> key, value |-> val, used |-> TRUE]]
        ELSE LET elemDist == dist(hashKey(cur.key), p, Cap(hm))
             IN  IF elemDist < dd
                 THEN insert([hm EXCEPT ![p + 1] = [key |-> key, value |-> val, used |-> TRUE]],
                             cur.key, cur.value, nxt, elemDist + 1)
                 ELSE insert(hm, key, val, nxt, dd + 1)

Put(hm, key, val) == insert(hm, key, val, hashKey(key) % Cap(hm), 0)

(* --------------------------- the writer ------------------------------- *)

ZeroMeasurement == [deleted |-> FALSE, offset |-> 0, seriesIDs |-> <<>>]

\* mw.mms[string(name)]: the zero value when the key is missing.
Lookup(mp, name) == IF name \in DOMAIN mp THEN mp[name] ELSE ZeroMeasurement

Store(mp, name, mm) ==
    [k \in DOMAIN mp \cup {name} |-> IF k = name THEN mm ELSE mp[k]]

\* measurement.flag
flag(mm) == IF mm.deleted THEN MeasurementTombstoneFlag ELSE 0

\* Add as it would be if it reset the tombstone.
AddClearsDeleted(mp, name, offset, seriesIDs) ==
    Store(mp, name, [deleted |-> FALSE, offset |-> offset, seriesIDs |-> seriesIDs])

\* Add as it would be if it appended to the series list already held.
AddMergesSeries(mp, name, offset, seriesIDs) ==
    Store(mp, name, [Lookup(mp, name) EXCEPT !.offset = offset,
                                             !.seriesIDs = @ \o seriesIDs])

\* MeasurementBlockWriter.Add on the map.
AddTo(mp, name, offset, seriesIDs) ==
    Store(mp, name, [Lookup(mp, name) EXCEPT !.offset = offset, !.seriesIDs = seriesIDs])

\* Delete as it would be if it dropped what Add had stored.
DeleteDiscards(mp, name) ==
    Store(mp, name, [ZeroMeasurement EXCEPT !.deleted = TRUE])

\* MeasurementBlockWriter.Delete on the map.
DeleteFrom(mp, name) ==
    Store(mp, name, [Lookup(mp, name) EXCEPT !.deleted = TRUE])

\* The series loop as it would be if it ran from the end of the list.
RECURSIVE SeriesBytesReversed(_)
SeriesBytesReversed(ids) ==
    IF ids = <<>> THEN <<>>
    ELSE SeriesBytesReversed(Tail(ids)) \o BE(Head(ids), SeriesIDSize)

\* writeMeasurementTo's loop over mm.seriesIDs.
RECURSIVE SeriesBytes(_)
SeriesBytes(ids) ==
    IF ids = <<>> THEN <<>> ELSE BE(Head(ids), SeriesIDSize) \o SeriesBytes(Tail(ids))

writeMeasurementTo(name, mm) ==
    <<flag(mm)>> \o BE(mm.offset, MeasurementOffsetSize)
        \o PutUvarint(Len(name)) \o name
        \o PutUvarint(Len(mm.seriesIDs)) \o SeriesBytes(mm.seriesIDs)

writeTrailerTo(hoff, n) ==
    BE(hoff, MeasurementHashOffsetSize) \o BE(n, MeasurementBlockSize)
        \o BE(MeasurementBlockVersion, MeasurementBlockVersionSize)

\* "Build key hash map": the names are put in the order the map is ranged over.
RECURSIVE BuildHashMap(_, _, _)
BuildHashMap(hm, mp, order) ==
    IF order = <<>> THEN hm
    ELSE BuildHashMap(Put(hm, Head(order), mp[Head(order)]), mp, Tail(order))

\* "Encode key list": slots i.. of hm appended to w; offsets of the slots so far.
RECURSIVE EncodeKeyList(_, _, _, _)
EncodeKeyList(hm, i, w, offsets) ==
    IF i >= Cap(hm) THEN [w |-> w, offsets |-> offsets]
    ELSE LET el == HashMapElem(hm, i)
         IN  IF ~el.used
             THEN EncodeKeyList(hm, i + 1, w, Append(offsets, 0))
             ELSE EncodeKeyList(hm, i + 1, w \o writeMeasurementTo(el.key, el.value),
                                Append(offsets, Len(w)))

\* "Encode hash map offset entries".
RECURSIVE OffsetEntries(_)
OffsetEntries(offsets) ==
    IF offsets = <<>> THEN <<>>
    ELSE BE(Head(offsets), MeasurementOffsetSize) \o OffsetEntries(Tail(offsets))

\* WriteTo as it would be without the padding byte.
WriteToBytesNoPad(hm) ==
    LET kl   == EncodeKeyList(hm, 0, <<>>, <<>>)
        hoff == Len(kl.w)
        w    == kl.w \o BE(Cap(hm), MeasurementNSize) \o OffsetEntries(kl.offsets)
    IN  w \o writeTrailerTo(hoff, Len(w))

\* The bytes WriteTo writes once the hash map hm is built.
WriteToBytes(hm) ==
    LET kl   == EncodeKeyList(hm, 0, <<0>>, <<>>)
        hoff == Len(kl.w)
        w    == kl.w \o BE(Cap(hm), MeasurementNSize) \o OffsetEntries(kl.offsets)
    IN  w \o writeTrailerTo(hoff, Len(w))

\* The orders in which a range over a map with key set S may visit the keys.
RECURSIVE Orders(_)
Orders(S) ==
    IF S = {} THEN {<<>>}
    ELSE UNION {{<<k>> \o o : o \in Orders(S \ {k})} : k \in S}

\* rhh.Options{Capacity: len(mw.mms), LoadFactor: 90}: the slots allocated.
Capacity(n) == n + slack

\* The hash maps WriteTo may build from mp, one for each order of the range.
HashMaps(mp) ==
    {BuildHashMap(NewHashMap(Capacity(Cardinality(DOMAIN mp))), mp, order) :
        order \in Orders(DOMAIN mp)}

(* --------------------------- the reader ------------------------------- *)

\* A slice is kept as the bounds [lo:hi] of the bytes it is a view of: the
\* block does not copy the data passed to UnmarshalBinary.
NilSlice == [lo |-> 0, hi |-> 0]

NoBlock == [data |-> NilSlice, hashData |-> NilSlice, version |-> 0]

\* MeasurementBlock.UnmarshalBinary: the error returned and the block fields set.
UnmarshalBinary(data) ==
    LET versionOffset == Len(data) - MeasurementBlockVersionSize
        version       == Uint(From(data, versionOffset), 2)
        szOffset      == versionOffset - MeasurementBlockSize
        sz            == Uint(From(data, szOffset), 8)
        hoffOffset    == szOffset - MeasurementHashOffsetSize
        hoff          == Uint(From(data, hoffOffset), 8)
    IN  IF Len(data) < MeasurementBlockVersion
        THEN [err |-> "ErrShortBuffer", blk |-> NoBlock]
        ELSE IF versionOffset < 0
        THEN [err |-> "panic", blk |-> NoBlock]
        ELSE IF version # MeasurementBlockVersion
        THEN [err |-> "ErrUnsupportedMeasurementBlockVersion",
              blk |-> [NoBlock EXCEPT !.version = version]]
        ELSE IF szOffset < 0
        THEN [err |-> "panic", blk |-> [NoBlock EXCEPT !.version = version]]
        ELSE IF Len(data) # sz + MeasurementTrailerSize
        THEN [err |-> "ErrMeasurementBlockSizeMismatch",
              blk |-> [NoBlock EXCEPT !.version = version]]
        ELSE IF hoff > hoffOffset
        THEN [err |-> "panic", blk |-> [NoBlock EXCEPT !.version = version]]
        ELSE [err |-> "nil",
              blk |-> [data |-> [lo |-> 0, hi |-> hoff],
                       hashData |-> [lo |-> hoff, hi |-> hoffOffset],
                       version |-> version]]

\* MeasurementElem.UnmarshalBinary.
ElemUnmarshalBinary(data) ==
    LET d1   == From(data, 1)
        d2   == From(d1, 8)
        szn  == Uvarint(d2)
        name == Slice(d2, szn[2], szn[2] + szn[1])
        d3   == From(d2, szn[2] + szn[1])
        vn   == Uvarint(d3)
        d4   == From(d3, vn[2])
    IN  [Flag |-> data[1], Offset |-> Uint(d1, 8), Name |-> name,
         N |-> vn[1],
         Data |-> Slice(d4, 0, vn[1] * SeriesIDSize),
         size |-> 1 + 8 + szn[2] + szn[1] + vn[2] + vn[1] * SeriesIDSize]

\* MeasurementElem.SeriesIDs.
SeriesIDs(e) == [i \in 1..e.N |-> Uint(From(e.Data, (i - 1) * SeriesIDSize), 4)]

ZeroElem == [Flag |-> 0, Offset |-> 0, Name |-> <<>>, N |-> 0, Data |-> <<>>, size |-> 0]

(* ------------------------------ actions ------------------------------- *)

RECURSIVE NumOps(_)
NumOps(S) ==
    IF S = {} THEN 0
    ELSE LET x == CHOOSE y \in S : TRUE IN Len(hist[x]) + NumOps(S \ {x})

ElemIdle ==
    /\ epc = "idle" /\ ename = <<>> /\ pos = 0 /\ d = 0 /\ reads = 0
    /\ ret = [e |-> ZeroElem, ok |-> FALSE]

\* What every run starts with but the writer's content.
InitRest ==
    /\ hashOf \in [Names -> HashVals]
    /\ slack \in 0..MaxSlack
    /\ m = <<>>
    /\ buf = <<>>
    /\ trunc = 0
    /\ blk = NoBlock
    /\ uerr = "none"
    /\ ElemIdle

\* NewMeasurementBlockWriter
Init ==
    /\ mms = <<>>
    /\ hist = [k \in Names |-> <<>>]
    /\ InitRest

\* The measurements a writer can hold for a name after calls of Add and Delete.
MeasurementValues ==
    {[deleted |-> TRUE, offset |-> 0, seriesIDs |-> <<>>]}
        \cup {[deleted |-> b, offset |-> a.offset, seriesIDs |-> a.seriesIDs] :
                  a \in AddArgs, b \in BOOLEAN}

\* Calls that leave mm in a new writer.
CallsFor(mm) ==
    (IF mm.offset = 0 /\ mm.seriesIDs = <<>> THEN <<>>
     ELSE <<[op |-> "Add", offset |-> mm.offset, seriesIDs |-> mm.seriesIDs]>>)
        \o (IF mm.deleted THEN <<[op |-> "Delete", offset |-> 0, seriesIDs |-> <<>>]>>
            ELSE <<>>)

\* A writer after calls of Add and Delete on at most MaxLoadNames names.
InitLoad ==
    /\ \E S \in SUBSET Names :
          /\ Cardinality(S) <= MaxLoadNames
          /\ mms \in [S -> MeasurementValues]
    /\ hist = [k \in Names |-> IF k \in DOMAIN mms THEN CallsFor(mms[k]) ELSE <<>>]
    /\ InitRest
\* MeasurementBlockWriter.Add
Add(name, offset, seriesIDs) ==
    /\ buf = <<>>
    /\ NumOps(Names) < MaxOps
    /\ mms' = AddTo(mms, name, offset, seriesIDs)
    /\ hist' = [hist EXCEPT ![name] =
                    Append(@, [op |-> "Add", offset |-> offset, seriesIDs |-> seriesIDs])]
    /\ UNCHANGED <<hashOf, slack, m, buf, trunc, blk, uerr, epc, ename, pos, d, reads, ret>>

\* MeasurementBlockWriter.Delete
Delete(name) ==
    /\ buf = <<>>
    /\ NumOps(Names) < MaxOps
    /\ mms' = DeleteFrom(mms, name)
    /\ hist' = [hist EXCEPT ![name] =
                    Append(@, [op |-> "Delete", offset |-> 0, seriesIDs |-> <<>>])]
    /\ UNCHANGED <<hashOf, slack, m, buf, trunc, blk, uerr, epc, ename, pos, d, reads, ret>>

\* MeasurementBlockWriter.WriteTo, to a writer that does not fail.
WriteTo ==
    /\ uerr = "none"
    /\ \E hm \in HashMaps(mms) :
          /\ m' = hm
          /\ buf' = WriteToBytes(hm)
    /\ UNCHANGED <<mms, hist, hashOf, slack, trunc, blk, uerr, epc, ename, pos, d, reads, ret>>

\* MeasurementBlock.UnmarshalBinary on the written bytes less their last k.
Load(k) ==
    /\ buf # <<>>
    /\ uerr = "none"
    /\ LET r == UnmarshalBinary(Slice(buf, 0, Len(buf) - k))
       IN  /\ uerr' = r.err
           /\ blk' = r.blk
    /\ trunc' = k
    /\ UNCHANGED <<mms, hist, hashOf, slack, m, buf, epc, ename, pos, d, reads, ret>>

LoadBlock == Load(0)

LoadTruncated == \E k \in 1..Len(buf) : Load(k)

\* The bytes UnmarshalBinary was called with, and the block's views of them.
Input == Slice(buf, 0, Len(buf) - trunc)
BlkData == Slice(Input, blk.data.lo, blk.data.hi)
BlkHashData == Slice(Input, blk.hashData.lo, blk.hashData.hi)

\* Capacity n read from the hash index.
HashN == Uint(Slice(BlkHashData, 0, MeasurementNSize), 4)

\* Probes a call of Elem is followed for.
MaxProbes == 2 * (MaxOps + MaxSlack) + 2

\* MeasurementBlock.Elem up to the loop.
ElemCall(name) ==
    /\ uerr = "nil"
    /\ epc = "idle"
    /\ ename' = name
    /\ d' = 0
    /\ reads' = 0
    /\ ret' = [e |-> ZeroElem, ok |-> FALSE]
    /\ LET n == HashN
       IN  IF n = 0
           THEN epc' = "panic" /\ pos' = 0
           ELSE epc' = "loop" /\ pos' = hashKey(name) % n
    /\ UNCHANGED <<mms, hist, hashOf, slack, m, buf, trunc, blk, uerr>>

\* One iteration of Elem's loop.
ElemProbe ==
    /\ epc = "loop"
    /\ reads < MaxProbes
    /\ reads' = reads + 1
    /\ LET n      == HashN
           offset == Uint(From(BlkHashData, MeasurementNSize + pos * MeasurementOffsetSize), 8)
           e      == ElemUnmarshalBinary(From(BlkData, offset))
       IN  IF offset > 0 /\ e.Name = ename
           THEN /\ epc' = "done"
                /\ ret' = [e |-> e, ok |-> TRUE]
                /\ UNCHANGED <<pos, d>>
           ELSE IF offset > 0 /\ d > dist(hashKey(e.Name), pos, n)
           THEN /\ epc' = "done"
                /\ ret' = [e |-> ZeroElem, ok |-> FALSE]
                /\ UNCHANGED <<pos, d>>
           ELSE /\ pos' = (pos + 1) % n
                /\ d' = d + 1
                /\ UNCHANGED <<epc, ret>>
    /\ UNCHANGED <<mms, hist, hashOf, slack, m, buf, trunc, blk, uerr, ename>>

\* The caller has taken Elem's result and may call again.
ElemReturn ==
    /\ epc = "done"
    /\ epc' = "idle" /\ ename' = <<>> /\ pos' = 0 /\ d' = 0 /\ reads' = 0
    /\ ret' = [e |-> ZeroElem, ok |-> FALSE]
    /\ UNCHANGED <<mms, hist, hashOf, slack, m, buf, trunc, blk, uerr>>

Next ==
    \/ \E name \in Names, a \in AddArgs : Add(name, a.offset, a.seriesIDs)
    \/ \E name \in Names : Delete(name)
    \/ WriteTo
    \/ LoadBlock
    \/ \E name \in Names : ElemCall(name)
    \/ ElemProbe
    \/ ElemReturn

Spec == Init /\ [][Next]_vars

\* Writing a block and loading it whole or cut short.
NextLoad ==
    \/ WriteTo
    \/ LoadBlock
    \/ LoadTruncated

SpecLoad == InitLoad /\ [][NextLoad]_vars

(* ------------------------------ claims -------------------------------- *)

IsAdd(c) == c.op = "Add"
IsDelete(c) == c.op = "Delete"

\* The last Add among the calls h.
LastAdd(h) ==
    LET I == {i \in 1..Len(h) : IsAdd(h[i])}
    IN  h[CHOOSE i \in I : \A j \in I : j <= i]

\* The last call is an Add and a Delete was made before it.
DeleteThenAdd(h) ==
    /\ Len(h) >= 2
    /\ IsAdd(h[Len(h)])
    /\ \E i \in 1..(Len(h) - 1) : IsDelete(h[i])

\* The last call is a Delete and an Add was made before it.
AddThenDelete(h) ==
    /\ Len(h) >= 2
    /\ IsDelete(h[Len(h)])
    /\ \E i \in 1..(Len(h) - 1) : IsAdd(h[i])

\* Add was called at least twice.
TwoAdds(h) == Cardinality({i \in 1..Len(h) : IsAdd(h[i])}) >= 2

\* Elem has returned.
Returned == epc = "done"

Tombstoned(e) == e.Flag % 2 = 1

\* The entries of a data region, decoded one after the other from offset off.
RECURSIVE EntriesFrom(_, _)
EntriesFrom(data, off) ==
    IF off >= Len(data) THEN <<>>
    ELSE LET e == ElemUnmarshalBinary(From(data, off))
         IN  <<[start |-> off, e |-> e]>> \o EntriesFrom(data, off + e.size)

\* Fields of the written block, read back from its bytes.
BufHoff == Uint(From(buf, Len(buf) - MeasurementTrailerSize), 8)
BufN == Uint(From(buf, BufHoff), 4)
BufSlot(i) == Uint(From(buf, BufHoff + MeasurementNSize + i * MeasurementOffsetSize), 8)
BufEntries == EntriesFrom(Slice(buf, 0, BufHoff), 1)

\* C1: after WriteTo and UnmarshalBinary, Elem(name) of a name the writer holds
\* returns (it does not fault, and it is found within n reads) ok = true and an
\* element with that name, the offset and the series list of the writer's
\* measurement (order and duplicates kept), tombstoned iff the measurement is
\* deleted.
C1_RoundTrip ==
    (epc # "idle" /\ ename \in DOMAIN mms) =>
        /\ epc # "panic"
        /\ epc = "loop" => reads < HashN
        /\ Returned =>
              /\ ret.ok
              /\ ret.e.Name = ename
              /\ ret.e.Offset = mms[ename].offset
              /\ SeriesIDs(ret.e) = mms[ename].seriesIDs
              /\ Tombstoned(ret.e) <=> mms[ename].deleted

C1_Witness ==
    /\ Returned /\ ret.ok
    /\ Cardinality(DOMAIN mms) >= 2
    /\ reads >= 2
    /\ mms[ename].deleted
    /\ Len(mms[ename].seriesIDs) = 3

\* No slot of the loaded hash index is occupied.
IndexEmpty ==
    \A i \in 0..(HashN - 1) :
        Uint(From(BlkHashData, MeasurementNSize + i * MeasurementOffsetSize), 8) = 0

\* C2: Elem(name) of a name never passed to Add or Delete returns ok = false:
\* it does not fault, it is not in a loop it cannot leave (both returns of the
\* loop are under "offset > 0", so over an index without an occupied slot the
\* loop never ends), and what it returns is ok = false.
C2_Absence ==
    (epc # "idle" /\ ename \notin DOMAIN mms) =>
        /\ epc # "panic"
        /\ ~(epc = "loop" /\ IndexEmpty)
        /\ Returned => ~ret.ok

\* C3: Elem reads at most n slots of the hash index, n its capacity.
C3_ProbeBound == (epc \in {"loop", "done"}) => reads <= HashN

\* C4 as claimed: after Delete(name) and then Add(name, o, s), Elem(name) has
\* the tombstone bit cleared, offset o and series s.
C4_DeleteThenAddClears ==
    (Returned /\ DeleteThenAdd(hist[ename])) =>
        /\ ret.ok
        /\ ~Tombstoned(ret.e)
        /\ ret.e.Offset = LastAdd(hist[ename]).offset
        /\ SeriesIDs(ret.e) = LastAdd(hist[ename]).seriesIDs

\* C4 as amended: after Delete(name) and then Add(name, o, s), Elem(name) has
\* the tombstone bit still set, offset o and series s.
C4_DeleteThenAddKeeps ==
    (Returned /\ DeleteThenAdd(hist[ename])) =>
        /\ ret.ok
        /\ Tombstoned(ret.e)
        /\ ret.e.Offset = LastAdd(hist[ename]).offset
        /\ SeriesIDs(ret.e) = LastAdd(hist[ename]).seriesIDs

C4_Witness ==
    /\ Returned /\ ret.ok
    /\ DeleteThenAdd(hist[ename])
    /\ ret.e.Flag = MeasurementTombstoneFlag
    /\ ret.e.Offset # 0

\* C5 as claimed: after Add(name, o, s) and then Delete(name), Elem(name) has
\* the tombstone bit set, offset 0 and no series.
C5_AddThenDeleteDiscards ==
    (Returned /\ AddThenDelete(hist[ename])) =>
        /\ ret.ok
        /\ Tombstoned(ret.e)
        /\ ret.e.Offset = 0
        /\ SeriesIDs(ret.e) = <<>>

\* C5 as amended: after Add(name, o, s) and then Delete(name), Elem(name) has
\* the tombstone bit set and still offset o and series s.
C5_AddThenDeleteKeeps ==
    (Returned /\ AddThenDelete(hist[ename])) =>
        /\ ret.ok
        /\ Tombstoned(ret.e)
        /\ ret.e.Offset = LastAdd(hist[ename]).offset
        /\ SeriesIDs(ret.e) = LastAdd(hist[ename]).seriesIDs

C5_Witness ==
    /\ Returned /\ ret.ok
    /\ AddThenDelete(hist[ename])
    /\ Tombstoned(ret.e)
    /\ ret.e.N = 3

\* C6: after two calls of Add for a name the block holds one entry for the
\* name, and Elem(name) returns the offset and exactly the series list of the
\* last Add.
C6_LastWriteWins ==
    (Returned /\ TwoAdds(hist[ename])) =>
        /\ ret.ok
        /\ ret.e.Offset = LastAdd(hist[ename]).offset
        /\ SeriesIDs(ret.e) = LastAdd(hist[ename]).seriesIDs
        /\ LET entries == BufEntries
           IN  Cardinality({i \in 1..Len(entries) : entries[i].e.Name = ename}) = 1

C6_Witness ==
    /\ Returned /\ ret.ok
    /\ Len(hist[ename]) = 2
    /\ IsAdd(hist[ename][1]) /\ IsAdd(hist[ename][2])
    /\ hist[ename][1].seriesIDs # hist[ename][2].seriesIDs
    /\ Cardinality(DOMAIN mms) = 2

\* C7: WriteTo on a writer that has been written, with no Add or Delete since,
\* writes the bytes it wrote before.
C7_Deterministic ==
    [][(buf # <<>> /\ buf' # <<>> /\ mms' = mms) => buf' = buf]_vars

\* C8: UnmarshalBinary of a written block less its last k >= 1 bytes returns
\* ErrMeasurementBlockSizeMismatch.
C8_Truncation ==
    (uerr # "none" /\ trunc >= 1) => uerr = "ErrMeasurementBlockSizeMismatch"

\* C9: UnmarshalBinary of fewer bytes than the trailer has returns
\* io.ErrShortBuffer.
C9_ShortBuffer ==
    (uerr # "none" /\ Len(buf) - trunc < MeasurementTrailerSize) => uerr = "ErrShortBuffer"

\* C10: in a written block, slot i of the hash index is 0 iff slot i of the
\* hash map is empty; a slot that is not 0 is at least 1, below the start of
\* the hash index, and the start of an encoded entry (the entry of the slot's
\* key); the offsets grow with the slot index; and as many slots are not 0 as
\* the writer has names.  (Stated of the block WriteTo has just written: the
\* later steps leave buf, m and mms as they are.)
C10_HashIndex ==
    (buf # <<>> /\ uerr = "none") =>
        LET entries == BufEntries
            starts  == {entries[i].start : i \in 1..Len(entries)}
            used    == {i \in 0..(BufN - 1) : BufSlot(i) # 0}
        IN  /\ BufN = Cap(m)
            /\ \A i \in 0..(BufN - 1) : BufSlot(i) = 0 <=> ~HashMapElem(m, i).used
            /\ \A i \in used :
                  /\ BufSlot(i) >= 1
                  /\ BufSlot(i) < BufHoff
                  /\ BufSlot(i) \in starts
                  /\ ElemUnmarshalBinary(From(buf, BufSlot(i))).Name = HashMapElem(m, i).key
            /\ \A i, j \in used : i < j => BufSlot(i) < BufSlot(j)
            /\ Cardinality(used) = Cardinality(DOMAIN mms)
            /\ Len(entries) = Cardinality(DOMAIN mms)

C10_Witness ==
    /\ buf # <<>>
    /\ Cardinality(DOMAIN mms) >= 2
    /\ \E i \in 0..(Cap(m) - 1) : ~HashMapElem(m, i).used
    /\ \E i \in 0..(Cap(m) - 1) :
          HashMapElem(m, i).used /\ hashKey(HashMapElem(m, i).key) % Cap(m) # i

====
